---- MODULE Spec2Model ----
(***************************************************************************)
(* Model of the DVD screensaver (src/main.go, src/unnamed/part_000).       *)
(*                                                                         *)
(* Numbers.  The program computes positions, velocities and speeds in      *)
(* float64.  The model computes them in float64 as well: a number is its   *)
(* sign, significand and exponent, every sum, product and quotient the     *)
(* program forms is computed exactly and then rounded to the nearest       *)
(* float64, ties to even, as the hardware does.  The values of math.Cos    *)
(* and math.Sin at start-up are inputs.                                    *)
(*                                                                         *)
(* Time.  The elapsed-time prefix of a log line is not modelled; a log     *)
(* line is the tuple of the values that are formatted into it.             *)
(***************************************************************************)
EXTENDS Integers, Sequences, FiniteSets, TLC

\* ---------------------------------------------------------------- bounds
\* Ticks explored, with every key combination, after each initial state.
MaxTicks == 3
\* Lengths of the input scripts that lead from start-up to the initial states.
IdleTicks == 7
SlowPresses == 5
FastPresses == 14

\* ------------------------------------------------------------- constants
screenWidth == 800
screenHeight == 600
logoWidth == 120
logoHeight == 60
maxLogLines == 10

\* ---------------------------------------------------------------- float64
\* Natural numbers of any size: the sequence of their digits in base
\* 2^LimbBits, least significant first, without high zero digits.
LimbBits == 14
Base == 2^LimbBits
\* Bits of the significand of a float64.
Precision == 53

RECURSIVE BigTrim(_)
BigTrim(a) ==
  IF a = <<>> THEN a
  ELSE IF a[Len(a)] = 0 THEN BigTrim(SubSeq(a, 1, Len(a) - 1))
  ELSE a

Limb(a, i) == IF i <= Len(a) THEN a[i] ELSE 0

RECURSIVE BigAddC(_, _, _, _)
BigAddC(a, b, i, carry) ==
  IF i > Len(a) /\ i > Len(b)
  THEN IF carry = 0 THEN <<>> ELSE <<carry>>
  ELSE LET t == Limb(a, i) + Limb(b, i) + carry
       IN <<t % Base>> \o BigAddC(a, b, i + 1, t \div Base)

BigAdd(a, b) == BigAddC(a, b, 1, 0)

\* a - b for a >= b.
RECURSIVE BigSubB(_, _, _, _)
BigSubB(a, b, i, borrow) ==
  IF i > Len(a) THEN <<>>
  ELSE LET t == a[i] - Limb(b, i) - borrow
       IN IF t < 0 THEN <<t + Base>> \o BigSubB(a, b, i + 1, 1)
          ELSE <<t>> \o BigSubB(a, b, i + 1, 0)

BigSub(a, b) == BigTrim(BigSubB(a, b, 1, 0))

RECURSIVE BigCmpAt(_, _, _)
BigCmpAt(a, b, i) ==
  IF i = 0 THEN 0
  ELSE IF a[i] < b[i] THEN -1
  ELSE IF a[i] > b[i] THEN 1
  ELSE BigCmpAt(a, b, i - 1)

\* -1, 0, 1 as a < b, a = b, a > b.
BigCmp(a, b) ==
  IF Len(a) < Len(b) THEN -1
  ELSE IF Len(a) > Len(b) THEN 1
  ELSE BigCmpAt(a, b, Len(a))

\* a * k for a digit k.
RECURSIVE BigMulLimbC(_, _, _, _)
BigMulLimbC(a, k, i, carry) ==
  IF i > Len(a)
  THEN IF carry = 0 THEN <<>> ELSE <<carry>>
  ELSE LET t == a[i] * k + carry
       IN <<t % Base>> \o BigMulLimbC(a, k, i + 1, t \div Base)

BigMulLimb(a, k) == IF k = 0 THEN <<>> ELSE BigMulLimbC(a, k, 1, 0)

\* a * Base.
BigShlLimb(a) == IF a = <<>> THEN a ELSE <<0>> \o a

RECURSIVE BigMulFrom(_, _, _)
BigMulFrom(a, b, j) ==
  IF j > Len(b) THEN <<>>
  ELSE BigAdd(BigMulLimb(a, b[j]), BigShlLimb(BigMulFrom(a, b, j + 1)))

BigMul(a, b) == BigMulFrom(a, b, 1)

\* a * 2^n and floor(a / 2^n).
BigShl(a, n) ==
  IF a = <<>> THEN a
  ELSE [i \in 1..(n \div LimbBits) |-> 0] \o BigMulLimbC(a, 2^(n % LimbBits), 1, 0)

BigShr(a, n) ==
  LET q == n \div LimbBits
      r == n % LimbBits
  IN IF q >= Len(a) THEN <<>>
     ELSE BigTrim([i \in 1..(Len(a) - q) |->
                     (a[i + q] \div 2^r) + (Limb(a, i + q + 1) % 2^r) * 2^(LimbBits - r)])

RECURSIVE BitLen(_)
BitLen(n) == IF n = 0 THEN 0 ELSE 1 + BitLen(n \div 2)

\* Number of bits of a.
BigLen(a) == IF a = <<>> THEN 0 ELSE LimbBits * (Len(a) - 1) + BitLen(a[Len(a)])

\* Bit i of a (bit 0 is the lowest).
BigBit(a, i) == (Limb(a, i \div LimbBits + 1) \div 2^(i % LimbBits)) % 2

\* a mod 2^n = 0.
BigLowZero(a, n) ==
  /\ \A i \in 1..(n \div LimbBits) : Limb(a, i) = 0
  /\ Limb(a, n \div LimbBits + 1) % 2^(n % LimbBits) = 0

\* A number is the record [neg, man, exp] with the value
\* (-1)^neg * man * 2^exp.  A float64 is such a record with man of exactly
\* Precision bits, or zero (man = <<>>, exp = 0).  Arithmetic is exact
\* (XAdd, XMul) followed by the rounding of IEEE 754 to the nearest
\* float64, ties to even (Round).  Exponents stay far inside the range of
\* float64 (ExponentInRange), so subnormal numbers, infinities and NaN do
\* not occur and are not represented.
IsZero(x) == x.man = <<>>

XNeg(x) == [x EXCEPT !.neg = ~x.neg]

\* The sum of two numbers of the same exponent e, from their signs and
\* significands; c compares the significands.
XAddAligned(aneg, ma, bneg, mb, e, c) ==
  IF aneg = bneg THEN [neg |-> aneg, man |-> BigAdd(ma, mb), exp |-> e]
  ELSE IF c = 0 THEN [neg |-> FALSE, man |-> <<>>, exp |-> 0]
  ELSE IF c > 0 THEN [neg |-> aneg, man |-> BigSub(ma, mb), exp |-> e]
  ELSE [neg |-> bneg, man |-> BigSub(mb, ma), exp |-> e]

XAddAt(a, b, e, ma, mb) ==
  XAddAligned(a.neg, ma, b.neg, mb, e, IF a.neg = b.neg THEN 0 ELSE BigCmp(ma, mb))

XAddTo(a, b, e) == XAddAt(a, b, e, BigShl(a.man, a.exp - e), BigShl(b.man, b.exp - e))

XAdd(a, b) ==
  IF IsZero(a) /\ IsZero(b) THEN [neg |-> a.neg /\ b.neg, man |-> <<>>, exp |-> 0]
  ELSE IF IsZero(a) THEN b
  ELSE IF IsZero(b) THEN a
  ELSE XAddTo(a, b, IF a.exp < b.exp THEN a.exp ELSE b.exp)

XMul(a, b) ==
  IF IsZero(a) \/ IsZero(b) THEN [neg |-> a.neg # b.neg, man |-> <<>>, exp |-> 0]
  ELSE [neg |-> a.neg # b.neg, man |-> BigMul(a.man, b.man), exp |-> a.exp + b.exp]

\* -1, 0, 1 as the value is negative, zero, positive.
XSign(x) == IF IsZero(x) THEN 0 ELSE IF x.neg THEN -1 ELSE 1

XCmp(a, b) == XSign(XAdd(a, XNeg(b)))
XLe(a, b) == XCmp(a, b) <= 0
XLt(a, b) == XCmp(a, b) < 0
XEq(a, b) == XCmp(a, b) = 0

\* Rounding a significand of more than Precision bits: q is its first
\* Precision bits and sh the number of bits cut off; the result is q or
\* q + 1 (r), which may have one bit more.
RoundCarry(x, sh, r) ==
  IF BigLen(r) > Precision
  THEN [neg |-> x.neg, man |-> BigShr(r, 1), exp |-> x.exp + sh + 1]
  ELSE [neg |-> x.neg, man |-> r, exp |-> x.exp + sh]

RoundCut(x, sh, q) ==
  RoundCarry(x, sh,
             IF /\ BigBit(x.man, sh - 1) = 1
                /\ q[1] % 2 = 1 \/ ~BigLowZero(x.man, sh - 1)
             THEN BigAdd(q, <<1>>) ELSE q)

\* x of n bits.
RoundBits(x, n) ==
  IF n = 0 THEN [neg |-> x.neg, man |-> <<>>, exp |-> 0]
  ELSE IF n = Precision THEN x
  ELSE IF n < Precision
  THEN [neg |-> x.neg, man |-> BigShl(x.man, Precision - n),
        exp |-> x.exp - (Precision - n)]
  ELSE RoundCut(x, n - Precision, BigShr(x.man, n - Precision))

\* The float64 nearest to x, ties to the even significand.
Round(x) == RoundBits(x, BigLen(x.man))

Abs(n) == IF n < 0 THEN -n ELSE n
F64(n, e) == Round([neg |-> n < 0, man |-> IF n = 0 THEN <<>> ELSE <<Abs(n)>>, exp |-> e])

\* The float64 operators of Go: a + b, a * b, -a, comparisons.
F64Add(a, b) == Round(XAdd(a, b))
F64Mul(a, b) == Round(XMul(a, b))
F64Neg(a) == XNeg(a)

\* -1, 0, 1 as a < b, a = b, a > b for float64 a and b: by sign, then by
\* exponent, then by significand.
F64CmpAbs(a, b) ==
  IF a.exp < b.exp THEN -1
  ELSE IF a.exp > b.exp THEN 1
  ELSE BigCmp(a.man, b.man)

F64Cmp(a, b) ==
  IF IsZero(a) THEN -XSign(b)
  ELSE IF IsZero(b) THEN XSign(a)
  ELSE IF a.neg # b.neg THEN XSign(a)
  ELSE IF a.neg THEN F64CmpAbs(b, a)
  ELSE F64CmpAbs(a, b)

\* One step of long division by d: the next bit of the quotient, from the
\* doubled quotient q2 and the doubled remainder r2.
DivStep(q2, r2, d) ==
  IF BigCmp(r2, d) >= 0
  THEN <<BigAdd(q2, <<1>>), BigSub(r2, d)>>
  ELSE <<q2, r2>>

\* k more steps from the quotient qr[1] and the remainder qr[2]; with no
\* remainder left the other bits are 0.
RECURSIVE DivBits(_, _, _)
DivNext(next, d, k) ==
  IF next[2] = <<>> THEN <<BigShl(next[1], k - 1), <<>>>>
  ELSE DivBits(next, d, k - 1)

DivBits(qr, d, k) ==
  IF k = 0 THEN qr
  ELSE DivNext(DivStep(BigShl(qr[1], 1), BigShl(qr[2], 1), d), d, k)

\* The quotient bits and what they leave, rounded.
DivRound(a, b, qr) ==
  Round([neg |-> a.neg # b.neg,
         man |-> BigAdd(BigShl(qr[1], 1), IF qr[2] = <<>> THEN <<>> ELSE <<1>>),
         exp |-> a.exp - b.exp - (Precision + 2) - 1])

\* Short division of a by a digit d: the quotient and the remainder, from
\* digit i of a down and the remainder of the digits above.
DivCons(qr, digit) == <<Append(qr[1], digit), qr[2]>>

RECURSIVE BigDivLimbFrom(_, _, _, _)
BigDivLimbFrom(a, d, i, rem) ==
  IF i = 0 THEN << <<>>, rem >>
  ELSE DivCons(BigDivLimbFrom(a, d, i - 1, (rem * Base + a[i]) % d),
               (rem * Base + a[i]) \div d)

BigDivLimb(a, d) == BigDivLimbFrom(a, d, Len(a), 0)

\* The significand of b is one digit followed by zeros.
IsShort(b) == \A i \in 1..(Len(b.man) - 1) : b.man[i] = 0

DivRoundShort(a, b, qr) ==
  Round([neg |-> a.neg # b.neg,
         man |-> BigAdd(BigShl(BigTrim(qr[1]), 1), IF qr[2] = 0 THEN <<>> ELSE <<1>>),
         exp |-> a.exp - b.exp - LimbBits * Len(b.man) - 1])

\* a / b for float64 a and b # 0: the quotient of the significands with at
\* least Precision + 2 bits, and a last bit that tells whether a remainder
\* is left, rounded.  The quotient is formed by short division when the
\* divisor has one digit, by long division otherwise.
F64Div(a, b) ==
  IF IsZero(a) THEN [neg |-> a.neg # b.neg, man |-> <<>>, exp |-> 0]
  ELSE IF IsShort(b)
  THEN DivRoundShort(a, b, BigDivLimb(BigShlLimb(a.man), b.man[Len(b.man)]))
  ELSE DivRound(a, b,
                DivBits(IF BigCmp(a.man, b.man) >= 0
                        THEN << <<1>>, BigSub(a.man, b.man) >>
                        ELSE << <<>>, a.man >>,
                        b.man, Precision + 2))

\* float64(n) for an int n, and an untyped integer constant used as a
\* float64.
Flt(n) == F64(n, 0)

Zero == Flt(0)
One == Flt(1)
\* The untyped constants of the edge tests, as float64.
fLogoWidth == Flt(logoWidth)
fLogoHeight == Flt(logoHeight)
fScreenWidth == Flt(screenWidth)
fScreenHeight == Flt(screenHeight)

F64Sub(a, b) == F64Add(a, F64Neg(b))
F64Le(a, b) == F64Cmp(a, b) <= 0
F64Lt(a, b) == F64Cmp(a, b) < 0
F64Ge(a, b) == F64Cmp(a, b) >= 0
F64Gt(a, b) == F64Cmp(a, b) > 0
\* a == b of Go: the two zeros are equal.
F64Eq(a, b) == F64Cmp(a, b) = 0

\* math.Abs and math.Copysign: the sign bit is cleared, copied.
F64Abs(a) == [a EXCEPT !.neg = FALSE]
Copysign(mag, sgn) == [mag EXCEPT !.neg = sgn.neg]

\* Config literal of main: 0.5, 10.0, 0.5.
MinSpeed == F64(1, -1)
MaxSpeed == Flt(10)
SpeedStep == F64(1, -1)
\* Game literal of main: speed 3.0.
InitialSpeed == Flt(3)

logoColors ==
  << <<255, 0, 0, 255>>, <<0, 255, 0, 255>>, <<0, 0, 255, 255>>,
     <<255, 255, 0, 255>>, <<255, 0, 255, 255>>, <<0, 255, 255, 255>>,
     <<255, 165, 0, 255>>, <<128, 0, 128, 255>> >>

\* --------------------------------------------------------------- helpers
\* CreateDVDLogo: the bitmap, as its size and fill colour (the text drawn
\* on it is the same for every bitmap).
CreateDVDLogo(width, height, bgColor) ==
  [width |-> width, height |-> height, fill |-> bgColor]

CreateLogo(width, height, color) == CreateDVDLogo(width, height, color)

WriteOffByOne(logBuf, logMsg) ==
  LET kept == IF Len(logBuf) > maxLogLines THEN Tail(logBuf) ELSE logBuf
  IN Append(kept, logMsg)

\* LogWriter.Write on the buffer.
Write(logBuf, logMsg) ==
  LET kept == IF Len(logBuf) >= maxLogLines THEN Tail(logBuf) ELSE logBuf
  IN Append(kept, logMsg)

\* logger.Printf over the io.MultiWriter: the line is appended to the log
\* file (and stdout) and written to the in-app buffer; out lists the lines
\* of the current tick in order.
Printf(s, line) ==
  [s EXCEPT !.logFile = Append(@, line),
            !.logBuffer = Write(@, line),
            !.out = Append(@, line)]

\* ----------------------------------------------------- the Game's methods
changeColorNoWrap(s) ==
  LET next == IF s.colorIndex + 1 >= Len(logoColors) THEN s.colorIndex ELSE s.colorIndex + 1
  IN [s EXCEPT !.colorIndex = next,
               !.logoImage = CreateLogo(logoWidth, logoHeight, logoColors[next + 1]),
               !.colorCalls = Append(@, <<s.colorIndex, next>>)]

\* colorIndex is 0-based as in the source; logoColors is a 1-based sequence.
changeColor(s) ==
  LET next == (s.colorIndex + 1) % Len(logoColors)
  IN [s EXCEPT !.colorIndex = next,
               !.logoImage = CreateLogo(logoWidth, logoHeight, logoColors[next + 1]),
               !.colorCalls = Append(@, <<s.colorIndex, next>>)]

\* One record per call of increaseSpeed / decreaseSpeed in the tick.
SpeedCall(fn, before, after) ==
  [fn |-> fn, oldSpeed |-> before.speed, newSpeed |-> after.speed,
   vx0 |-> before.velocityX, vy0 |-> before.velocityY,
   vx1 |-> after.velocityX, vy1 |-> after.velocityY]

\* Lines 220-223 and 236-239: the clamps.
ClampMax(v) == IF F64Gt(v, MaxSpeed) THEN MaxSpeed ELSE v
ClampMin(v) == IF F64Lt(v, MinSpeed) THEN MinSpeed ELSE v

\* Lines 228-230 and 244-246: both components times the ratio.
RescaleOnlyX(s, ratio) == [s EXCEPT !.velocityX = F64Mul(@, ratio)]

Rescale(s, ratio) ==
  [s EXCEPT !.velocityX = F64Mul(@, ratio), !.velocityY = F64Mul(@, ratio)]

SetSpeedOnlyX(s, new) ==
  IF F64Gt(s.speed, Zero) /\ ~F64Eq(new, s.speed)
  THEN [RescaleOnlyX(s, F64Div(new, s.speed)) EXCEPT !.speed = new]
  ELSE [s EXCEPT !.speed = new]

\* Lines 226-231 and 242-247: the speed after the clamp is new; the
\* velocity is rescaled if the speed changed.
SetSpeed(s, new) ==
  IF F64Gt(s.speed, Zero) /\ ~F64Eq(new, s.speed)
  THEN [Rescale(s, F64Div(new, s.speed)) EXCEPT !.speed = new]
  ELSE [s EXCEPT !.speed = new]

SetSpeedAlwaysRescale(s, stepped) ==
  [Rescale(s, F64Div(stepped, s.speed)) EXCEPT !.speed = ClampMin(stepped)]

\* The call is added to the observations of the tick.
Called(fn, s, t) == [t EXCEPT !.speedCalls = Append(@, SpeedCall(fn, s, t))]

increaseSpeedNoClamp(s) ==
  Called("increaseSpeed", s, SetSpeed(s, F64Add(s.speed, SpeedStep)))

increaseSpeedOnlyX(s) ==
  Called("increaseSpeed", s, SetSpeedOnlyX(s, ClampMax(F64Add(s.speed, SpeedStep))))

\* Lines 218-232.
increaseSpeed(s) ==
  Called("increaseSpeed", s, SetSpeed(s, ClampMax(F64Add(s.speed, SpeedStep))))

decreaseSpeedAlwaysRescale(s) ==
  Called("decreaseSpeed", s, SetSpeedAlwaysRescale(s, F64Sub(s.speed, SpeedStep)))

\* Lines 234-248.
decreaseSpeed(s) ==
  Called("decreaseSpeed", s, SetSpeed(s, ClampMin(F64Sub(s.speed, SpeedStep))))

\* setFullscreen: the field, the window request (ebiten.SetFullscreen), the
\* log line.
setFullscreen(s, fullscreen, logMessage) ==
  Printf([s EXCEPT !.isFullscreen = fullscreen,
                   !.windowFullscreen = fullscreen,
                   !.fsCalls = Append(@, <<logMessage, fullscreen>>)],
         <<logMessage, fullscreen>>)

\* ------------------------------------------------------------ Game.Update
\* Lines 96-97.
Integrate(s) ==
  [s EXCEPT !.logoX = F64Add(@, s.velocityX), !.logoY = F64Add(@, s.velocityY),
            !.dx = s.velocityX, !.dy = s.velocityY]

\* Lines 107-109.
HandleFKey(s, keys) ==
  IF keys.F /\ ~s.lastFKeyPressed
  THEN setFullscreen(s, ~s.isFullscreen, "Fullscreen toggled")
  ELSE s

HandleEscKeyAlways(s, keys) ==
  IF keys.Escape /\ ~s.lastEscKeyPressed
  THEN setFullscreen(s, ~s.isFullscreen, "Fullscreen exited with ESC key")
  ELSE s

\* Lines 112-114.
HandleEscKey(s, keys) ==
  IF keys.Escape /\ ~s.lastEscKeyPressed /\ s.isFullscreen
  THEN setFullscreen(s, FALSE, "Fullscreen exited with ESC key")
  ELSE s

\* Lines 116-117.
LatchFullscreenKeys(s, keys) ==
  [s EXCEPT !.lastFKeyPressed = keys.F, !.lastEscKeyPressed = keys.Escape]

\* Lines 126-129 and 136-139: the line, if the speed is another one.
LogSpeed(s, t, message) ==
  IF ~F64Eq(t.speed, s.speed) THEN Printf(t, <<message, s.speed, t.speed>>) ELSE t

LogSpeedAlways(s, t, message) == Printf(t, <<message, s.speed, t.speed>>)

HandleJKeyLevel(s, keys) ==
  [(IF keys.J THEN LogSpeed(s, decreaseSpeed(s), "Speed decreased") ELSE s)
     EXCEPT !.lastJKeyPressed = keys.J]

\* Lines 123-131.
HandleJKey(s, keys) ==
  [(IF keys.J /\ ~s.lastJKeyPressed
    THEN LogSpeed(s, decreaseSpeed(s), "Speed decreased")
    ELSE s)
     EXCEPT !.lastJKeyPressed = keys.J]

HandleLKeyAlwaysLogs(s, keys) ==
  [(IF keys.L /\ ~s.lastLKeyPressed
    THEN LogSpeedAlways(s, increaseSpeed(s), "Speed increased")
    ELSE s)
     EXCEPT !.lastLKeyPressed = keys.L]

\* Lines 133-141.
HandleLKey(s, keys) ==
  [(IF keys.L /\ ~s.lastLKeyPressed
    THEN LogSpeed(s, increaseSpeed(s), "Speed increased")
    ELSE s)
     EXCEPT !.lastLKeyPressed = keys.L]

\* The bounce log line: edge, position, new velocity, new colour.
BounceLine(s, edge) ==
  <<"BOUNCE", edge, s.logoX, s.logoY, s.velocityX, s.velocityY,
    logoColors[s.colorIndex + 1]>>

BounceXClamps(s, edge) ==
  LET x == IF edge = "Left" THEN Zero ELSE Flt(screenWidth - logoWidth)
      t == changeColor([s EXCEPT !.velocityX = F64Neg(s.velocityX), !.hitX = edge,
                                 !.logoX = x])
  IN Printf(t, BounceLine(t, edge))

\* Lines 145-148 and 150-153.
BounceX(s, edge) ==
  LET t == changeColor([s EXCEPT !.velocityX = F64Neg(s.velocityX), !.hitX = edge])
  IN Printf(t, BounceLine(t, edge))

BounceYNoColor(s, edge) ==
  LET t == [s EXCEPT !.velocityY = F64Neg(s.velocityY), !.hitY = edge]
  IN Printf(t, BounceLine(t, edge))

\* Lines 157-160 and 162-165.
BounceY(s, edge) ==
  LET t == changeColor([s EXCEPT !.velocityY = F64Neg(s.velocityY), !.hitY = edge])
  IN Printf(t, BounceLine(t, edge))

CollideXLeftOnly(s) ==
  IF F64Le(s.logoX, Zero) THEN BounceX(s, "Left")
  ELSE s

\* Lines 144-154.
CollideX(s) ==
  IF F64Le(s.logoX, Zero) THEN BounceX(s, "Left")
  ELSE IF F64Ge(F64Add(s.logoX, fLogoWidth), fScreenWidth) THEN BounceX(s, "Right")
  ELSE s

CollideYSkippedAfterX(s) ==
  IF s.hitX # "none" THEN s
  ELSE IF F64Le(s.logoY, Zero) THEN BounceY(s, "Top")
  ELSE IF F64Ge(F64Add(s.logoY, fLogoHeight), fScreenHeight) THEN BounceY(s, "Bottom")
  ELSE s

\* Lines 156-166.
CollideY(s) ==
  IF F64Le(s.logoY, Zero) THEN BounceY(s, "Top")
  ELSE IF F64Ge(F64Add(s.logoY, fLogoHeight), fScreenHeight) THEN BounceY(s, "Bottom")
  ELSE s

\* The fields of the Game that the observations of a tick compare against.
Fields(s) ==
  [logoX |-> s.logoX, logoY |-> s.logoY,
   velocityX |-> s.velocityX, velocityY |-> s.velocityY,
   speed |-> s.speed, colorIndex |-> s.colorIndex,
   isFullscreen |-> s.isFullscreen,
   lastFKeyPressed |-> s.lastFKeyPressed,
   lastEscKeyPressed |-> s.lastEscKeyPressed,
   lastJKeyPressed |-> s.lastJKeyPressed,
   lastLKeyPressed |-> s.lastLKeyPressed]

\* The observations of a tick, cleared at its start: the Game before the
\* tick, the keys sampled, the calls made, the lines logged, the edges hit
\* (and the edges hit in the tick before).
StartTick(s, keys) ==
  [s EXCEPT !.ticked = TRUE, !.pre = Fields(s), !.keys = keys,
            !.out = <<>>, !.speedCalls = <<>>, !.fsCalls = <<>>,
            !.colorCalls = <<>>,
            !.prevHitX = s.hitX, !.prevHitY = s.hitY,
            !.hitX = "none", !.hitY = "none"]

\* The Game between input sampling and the collision check.
MarkBeforeCheck(s) == [s EXCEPT !.mid = Fields(s)]

UpdateFnEscFirst(s, keys) ==
  LET s0 == StartTick(s, keys)
      s1 == Integrate(s0)
      s2 == HandleEscKey(s1, keys)
      s3 == HandleFKey(s2, keys)
      s4 == LatchFullscreenKeys(s3, keys)
      s5 == HandleJKey(s4, keys)
      s6 == HandleLKey(s5, keys)
      s7 == MarkBeforeCheck(s6)
      s8 == CollideX(s7)
  IN CollideY(s8)

UpdateFnCollideFirst(s, keys) ==
  LET s0 == StartTick(s, keys)
      s1 == Integrate(s0)
      s2 == MarkBeforeCheck(s1)
      s3 == CollideX(s2)
      s4 == CollideY(s3)
      s5 == HandleFKey(s4, keys)
      s6 == HandleEscKey(s5, keys)
      s7 == LatchFullscreenKeys(s6, keys)
      s8 == HandleJKey(s7, keys)
  IN HandleLKey(s8, keys)

\* Game.Update, lines 94-169, for the key states that ebiten.IsKeyPressed
\* returns in this tick.
UpdateFn(s, keys) ==
  LET s0 == StartTick(s, keys)
      s1 == Integrate(s0)
      s2 == HandleFKey(s1, keys)
      s3 == HandleEscKey(s2, keys)
      s4 == LatchFullscreenKeys(s3, keys)
      s5 == HandleJKey(s4, keys)
      s6 == HandleLKey(s5, keys)
      s7 == MarkBeforeCheck(s6)
      s8 == CollideX(s7)
  IN CollideY(s8)

\* ------------------------------------------------------------------ main
StartVelocityNoFloor(c, speed) == F64Mul(c, speed)

\* Lines 304-314: velocity from the angle's cosine or sine c, with the
\* floor of 1.0 on each axis.
StartVelocity(c, speed) ==
  LET v == F64Mul(c, speed)
  IN IF F64Lt(F64Abs(v), One) THEN Copysign(One, v) ELSE v

\* The Game when ebiten.RunGame is entered (lines 272-350), for the random
\* draws x, y (int) and the angle with cosine c and sine sn (float64).
NewGame(x, y, c, sn) ==
  LET vx == StartVelocity(c, InitialSpeed)
      vy == StartVelocity(sn, InitialSpeed)
      started == << <<"DVD Screensaver started">>,
                    <<"Initial position", Flt(x), Flt(y), vx, vy,
                      InitialSpeed, logoColors[1]>>,
                    <<"Window created", screenWidth, screenHeight>>,
                    <<"Starting game loop">> >>
      g == [logoX |-> Flt(x), logoY |-> Flt(y),
            velocityX |-> vx, velocityY |-> vy,
            speed |-> InitialSpeed, colorIndex |-> 0,
            logoImage |-> CreateLogo(logoWidth, logoHeight, logoColors[1]),
            logBuffer |-> started, logFile |-> started,
            isFullscreen |-> FALSE, windowFullscreen |-> FALSE,
            lastFKeyPressed |-> FALSE, lastEscKeyPressed |-> FALSE,
            lastJKeyPressed |-> FALSE, lastLKeyPressed |-> FALSE]
  IN g @@ [ticked |-> FALSE, pre |-> Fields(g), mid |-> Fields(g),
           keys |-> [F |-> FALSE, Escape |-> FALSE, J |-> FALSE, L |-> FALSE],
           dx |-> Zero, dy |-> Zero,
           out |-> <<>>, speedCalls |-> <<>>, fsCalls |-> <<>>,
           colorCalls |-> <<>>,
           hitX |-> "none", hitY |-> "none",
           prevHitX |-> "none", prevHitY |-> "none"]

\* ------------------------------------------------------------ the inputs
\* ebiten.IsKeyPressed for the four keys in one tick: a record of booleans.
NoKeys == [F |-> FALSE, Escape |-> FALSE, J |-> FALSE, L |-> FALSE]

Keys(f, esc, j, l) == [F |-> f, Escape |-> esc, J |-> j, L |-> l]

\* The key states explored in every tick: each key alone, the two keys of
\* each pair of handlers that share a field together, all keys, none.
KeyInputs ==
  { NoKeys,
    Keys(TRUE, FALSE, FALSE, FALSE), Keys(FALSE, TRUE, FALSE, FALSE),
    Keys(TRUE, TRUE, FALSE, FALSE),
    Keys(FALSE, FALSE, TRUE, FALSE), Keys(FALSE, FALSE, FALSE, TRUE),
    Keys(FALSE, FALSE, TRUE, TRUE),
    Keys(TRUE, TRUE, TRUE, TRUE) }

\* Values of math.Cos and math.Sin: the float64 nearest to k/5, and a
\* positive value below the floor (math.Sin(math.Pi) is about 1.2e-16).
Fifths(k) == F64Div(Flt(k), Flt(5))
Tiny == F64(1, -Precision)

\* The random draws of main: rand.Intn(screenWidth - logoWidth),
\* rand.Intn(screenHeight - logoHeight), and the angle as <<cos, sin>>.
\* A draw at x = 0 and one at x = 679 are the extremes of rand.Intn.
StartDraws ==
  { <<0, 0, Fifths(-3), Fifths(-4)>>,    \* top-left corner, moving out of it
    <<0, 100, Flt(-1), Tiny>>,           \* on the left edge, moving left (angle pi)
    <<2, 300, Fifths(-3), Fifths(4)>>,   \* two pixels from the left edge
    <<340, 270, One, Zero>>,             \* mid-screen (angle 0)
    <<340, 539, Fifths(3), Fifths(4)>>,  \* one pixel above the bottom edge
    <<679, 270, Fifths(4), Fifths(3)>>,  \* one pixel from the right edge
    <<678, 1, Fifths(4), Fifths(-3)>>,   \* top-right corner
    <<679, 539, Fifths(3), Fifths(4)>> } \* bottom-right corner

\* Input scripts: n ticks without keys; k presses of one key, each followed
\* by a tick with the key released.
Idle(n) == [i \in 1..n |-> NoKeys]

Mash(key, k) ==
  [i \in 1..(2 * k) |-> IF i % 2 = 1 THEN [NoKeys EXCEPT ![key] = TRUE] ELSE NoKeys]

Scripts == { Idle(0), Idle(IdleTicks), Mash("J", SlowPresses), Mash("L", FastPresses) }

\* The Game after the ticks of a script.
RECURSIVE Run(_, _)
Run(s, script) ==
  IF script = <<>> THEN s
  ELSE LET t == UpdateFn(s, Head(script))
       IN IF t.ticked THEN Run(t, Tail(script)) ELSE t

\* ----------------------------------------------------------------- state
VARIABLES
  logoX, logoY, velocityX, velocityY, speed, logoImage, colorIndex,
  logBuffer, isFullscreen,
  lastFKeyPressed, lastEscKeyPressed, lastJKeyPressed, lastLKeyPressed,
  windowFullscreen,  \* what ebiten.SetFullscreen was last asked for
  logFile,           \* the lines of dvd_screensaver.log
  tick,              \* the observations of the last tick
  ticks              \* ticks taken since the initial state

vars ==
  <<logoX, logoY, velocityX, velocityY, speed, logoImage, colorIndex,
    logBuffer, isFullscreen,
    lastFKeyPressed, lastEscKeyPressed, lastJKeyPressed, lastLKeyPressed,
    windowFullscreen, logFile, tick, ticks>>

ObsOf(s) ==
  [ticked |-> s.ticked, pre |-> s.pre, mid |-> s.mid, keys |-> s.keys,
   dx |-> s.dx, dy |-> s.dy,
   out |-> s.out, speedCalls |-> s.speedCalls, fsCalls |-> s.fsCalls,
   colorCalls |-> s.colorCalls,
   hitX |-> s.hitX, hitY |-> s.hitY,
   prevHitX |-> s.prevHitX, prevHitY |-> s.prevHitY]

\* The state as the record the operators above work on.
Cur ==
  [logoX |-> logoX, logoY |-> logoY,
   velocityX |-> velocityX, velocityY |-> velocityY,
   speed |-> speed, colorIndex |-> colorIndex,
   logoImage |-> logoImage, logBuffer |-> logBuffer,
   isFullscreen |-> isFullscreen, windowFullscreen |-> windowFullscreen,
   logFile |-> logFile,
   lastFKeyPressed |-> lastFKeyPressed, lastEscKeyPressed |-> lastEscKeyPressed,
   lastJKeyPressed |-> lastJKeyPressed, lastLKeyPressed |-> lastLKeyPressed]
  @@ tick

InitFrom(s) ==
  /\ logoX = s.logoX /\ logoY = s.logoY
  /\ velocityX = s.velocityX /\ velocityY = s.velocityY
  /\ speed = s.speed /\ colorIndex = s.colorIndex
  /\ logoImage = s.logoImage /\ logBuffer = s.logBuffer
  /\ isFullscreen = s.isFullscreen /\ windowFullscreen = s.windowFullscreen
  /\ logFile = s.logFile
  /\ lastFKeyPressed = s.lastFKeyPressed
  /\ lastEscKeyPressed = s.lastEscKeyPressed
  /\ lastJKeyPressed = s.lastJKeyPressed
  /\ lastLKeyPressed = s.lastLKeyPressed
  /\ tick = ObsOf(s)
  /\ ticks = 0

\* Start-up (main), followed by the ticks of one of the scripts.
Init ==
  \E d \in StartDraws, script \in Scripts :
    InitFrom(Run(NewGame(d[1], d[2], d[3], d[4]), script))

\* The Game s is the next state.
Becomes(s) ==
  /\ logoX' = s.logoX /\ logoY' = s.logoY
  /\ velocityX' = s.velocityX /\ velocityY' = s.velocityY
  /\ speed' = s.speed /\ colorIndex' = s.colorIndex
  /\ logoImage' = s.logoImage /\ logBuffer' = s.logBuffer
  /\ isFullscreen' = s.isFullscreen
  /\ windowFullscreen' = s.windowFullscreen
  /\ logFile' = s.logFile
  /\ lastFKeyPressed' = s.lastFKeyPressed
  /\ lastEscKeyPressed' = s.lastEscKeyPressed
  /\ lastJKeyPressed' = s.lastJKeyPressed
  /\ lastLKeyPressed' = s.lastLKeyPressed
  /\ tick' = ObsOf(s)

\* One call of Game.Update by the frame loop.
Update(keys) ==
  /\ ticks < MaxTicks
  /\ Becomes(UpdateFn(Cur, keys))
  /\ ticks' = ticks + 1

Next == \E keys \in KeyInputs : Update(keys)

Spec == Init /\ [][Next]_vars

\* Start-up alone: the Game as main hands it to the frame loop.
InitStartup ==
  \E d \in StartDraws : InitFrom(NewGame(d[1], d[2], d[3], d[4]))

SpecStartup == InitStartup /\ [][Next]_vars

\* The scenario of the tests: a Game built directly at position (0, 0) with
\* velocity (-1, -1) (no start-up draw gives this velocity), next to the
\* start-up Games.
ScenarioGame ==
  [NewGame(0, 0, Fifths(-3), Fifths(-4)) EXCEPT
     !.velocityX = Flt(-1), !.velocityY = Flt(-1),
     !.pre.velocityX = Flt(-1), !.pre.velocityY = Flt(-1),
     !.mid.velocityX = Flt(-1), !.mid.velocityY = Flt(-1),
     !.logBuffer = <<>>, !.logFile = <<>>]

InitScenario ==
  \/ InitFrom(ScenarioGame)
  \/ InitStartup

SpecScenario == InitScenario /\ [][Next]_vars

\* The numbers of the state are float64 with exponents far from the ends of
\* the range of float64.
IsF64(x) == IsZero(x) \/ (BigLen(x.man) = Precision /\ x.exp \in -200..200)

ExponentInRange ==
  /\ IsF64(logoX) /\ IsF64(logoY)
  /\ IsF64(velocityX) /\ IsF64(velocityY) /\ IsF64(speed)

\* ---------------------------------------------------- reading one tick
\* Edge conditions on the position the collision check reads.
AtLeft == F64Le(tick.mid.logoX, Zero)
AtRight == F64Ge(F64Add(tick.mid.logoX, fLogoWidth), fScreenWidth)
AtTop == F64Le(tick.mid.logoY, Zero)
AtBottom == F64Ge(F64Add(tick.mid.logoY, fLogoHeight), fScreenHeight)

\* -1, 0, 1 as a float64 is negative, zero, positive.
Sign(x) == XSign(x)

\* Press edges of the tick: sampled pressed, latch of the tick before not set.
FEdge == tick.keys.F /\ ~tick.pre.lastFKeyPressed
EscEdge == tick.keys.Escape /\ ~tick.pre.lastEscKeyPressed
JEdge == tick.keys.J /\ ~tick.pre.lastJKeyPressed
LEdge == tick.keys.L /\ ~tick.pre.lastLKeyPressed

\* isFullscreen when the ESC condition of the tick is evaluated.
FullscreenAtEsc == IF FEdge THEN ~tick.pre.isFullscreen ELSE tick.pre.isFullscreen

IsBounce(line) == line[1] = "BOUNCE"
IsToggle(c) == c[1] = "Fullscreen toggled"
IsEscExit(c) == c[1] = "Fullscreen exited with ESC key"
IsDecrease(c) == c.fn = "decreaseSpeed"
IsIncrease(c) == c.fn = "increaseSpeed"
SpeedChanged(c) == ~F64Eq(c.newSpeed, c.oldSpeed)
IsDecreaseLine(line) == line[1] = "Speed decreased"
IsIncreaseLine(line) == line[1] = "Speed increased"
IsFullscreenLine(line) == IsToggle(line) \/ IsEscExit(line)

Bounces == SelectSeq(tick.out, IsBounce)

\* ------------------------------------------------------------------- C1
\* C1: in every reachable state MinSpeed <= speed <= MaxSpeed.
SpeedWithinBounds == F64Le(MinSpeed, speed) /\ F64Le(speed, MaxSpeed)

\* An increase was attempted at MaxSpeed (the clamp acted).
SpeedClampedAtMax ==
  /\ speed = MaxSpeed
  /\ \E i \in 1..Len(tick.speedCalls) :
       /\ tick.speedCalls[i].fn = "increaseSpeed"
       /\ tick.speedCalls[i].oldSpeed = MaxSpeed

\* ------------------------------------------------------------------- C2
\* C2: in every tick, an axis whose edge condition holds at the collision
\* check ends the tick with the opposite velocity sign it had before the
\* check; an axis whose edge conditions do not hold keeps its sign.
BounceFlipsSign ==
  tick.ticked =>
    /\ IF AtLeft \/ AtRight
       THEN /\ Sign(tick.mid.velocityX) # 0
            /\ Sign(velocityX) = -Sign(tick.mid.velocityX)
       ELSE Sign(velocityX) = Sign(tick.mid.velocityX)
    /\ IF AtTop \/ AtBottom
       THEN /\ Sign(tick.mid.velocityY) # 0
            /\ Sign(velocityY) = -Sign(tick.mid.velocityY)
       ELSE Sign(velocityY) = Sign(tick.mid.velocityY)

\* A tick at the right edge whose speed was changed before the check.
RightEdgeHitAfterRescale ==
  /\ tick.ticked /\ AtRight
  /\ tick.mid.velocityX # tick.pre.velocityX
  /\ F64Lt(velocityX, Zero)

\* ------------------------------------------------------------------- C3
\* C3: when the collision check fired on an edge in the tick before, the
\* integration of this tick has brought the box strictly inside that edge
\* (so the check does not fire on the same edge in two consecutive ticks).
BackInsideAfterBounce ==
  tick.ticked =>
    /\ tick.prevHitX = "Left" => F64Gt(logoX, Zero)
    /\ tick.prevHitX = "Right" =>
         F64Lt(F64Add(logoX, fLogoWidth), fScreenWidth)
    /\ tick.prevHitY = "Top" => F64Gt(logoY, Zero)
    /\ tick.prevHitY = "Bottom" =>
         F64Lt(F64Add(logoY, fLogoHeight), fScreenHeight)

\* ------------------------------------------------------------------- C4
\* C4: at the end of every tick the box is outside an edge by at most the
\* displacement that was added on that axis in the tick (compared as real
\* numbers, without rounding).
OvershootBounded ==
  /\ XLe(XNeg(F64Abs(tick.dx)), logoX)
  /\ XLe(XAdd(logoX, fLogoWidth), XAdd(fScreenWidth, F64Abs(tick.dx)))
  /\ XLe(XNeg(F64Abs(tick.dy)), logoY)
  /\ XLe(XAdd(logoY, fLogoHeight), XAdd(fScreenHeight, F64Abs(tick.dy)))

\* ------------------------------------------------------------------- C5
XAbs(x) == [x EXCEPT !.neg = FALSE]

\* C5 as claimed: every call of increaseSpeed / decreaseSpeed that changes a
\* positive speed multiplies both velocity components by newSpeed/oldSpeed:
\* the signs stay and, as real numbers, vx_after * vy_before =
\* vy_after * vx_before.
RescalePreservesDirection ==
  \A i \in 1..Len(tick.speedCalls) :
    LET c == tick.speedCalls[i]
    IN (F64Gt(c.oldSpeed, Zero) /\ ~F64Eq(c.newSpeed, c.oldSpeed)) =>
         /\ Sign(c.vx1) = Sign(c.vx0)
         /\ Sign(c.vy1) = Sign(c.vy0)
         /\ XEq(XMul(c.vx1, c.vy0), XMul(c.vy1, c.vx0))

\* C5 amended: each component is multiplied by the float64 quotient
\* newSpeed/oldSpeed and the product is rounded to float64: the signs stay
\* and the cross products vx_after * vy_before and vy_after * vx_before
\* differ by at most 2^-52 of their magnitude (the rounding of the two
\* products).
RescaleKeepsDirectionRounded ==
  \A i \in 1..Len(tick.speedCalls) :
    LET c == tick.speedCalls[i]
        ratio == F64Div(c.newSpeed, c.oldSpeed)
        a == XMul(c.vx1, c.vy0)
        b == XMul(c.vy1, c.vx0)
    IN (F64Gt(c.oldSpeed, Zero) /\ ~F64Eq(c.newSpeed, c.oldSpeed)) =>
         /\ F64Gt(ratio, Zero)
         /\ c.vx1 = F64Mul(c.vx0, ratio)
         /\ c.vy1 = F64Mul(c.vy0, ratio)
         /\ Sign(c.vx1) = Sign(c.vx0)
         /\ Sign(c.vy1) = Sign(c.vy0)
         /\ XLe(XAbs(XAdd(a, XNeg(b))), XMul(XAbs(b), F64(1, 1 - Precision)))

\* A speed change in a tick that bounces, after a bounce in the tick before,
\* whose rounding shows: the two cross products differ.
RescaleBetweenBounces ==
  /\ tick.ticked
  /\ tick.prevHitX # "none" \/ tick.prevHitY # "none"
  /\ tick.hitX # "none" \/ tick.hitY # "none"
  /\ \E i \in 1..Len(tick.speedCalls) :
       /\ SpeedChanged(tick.speedCalls[i])
       /\ ~XEq(XMul(tick.speedCalls[i].vx1, tick.speedCalls[i].vy0),
               XMul(tick.speedCalls[i].vy1, tick.speedCalls[i].vx0))

\* ------------------------------------------------------------------- C6
\* C6: in a tick where an x-edge and a y-edge condition both hold, both
\* velocity components are negated, colorIndex advances by 2 modulo the
\* palette size and exactly two bounce lines are logged, the horizontal one
\* first; from (0,0) with velocity (-1,-1), a tick (that rescales nothing)
\* ends with velocity (+1,+1), a Left and a Top line and two colour advances.
CornerHitBouncesTwice ==
  tick.ticked =>
    /\ ((AtLeft \/ AtRight) /\ (AtTop \/ AtBottom)) =>
         /\ velocityX = F64Neg(tick.mid.velocityX)
         /\ velocityY = F64Neg(tick.mid.velocityY)
         /\ colorIndex = (tick.pre.colorIndex + 2) % Len(logoColors)
         /\ Len(tick.colorCalls) = 2
         /\ Len(Bounces) = 2
         /\ Bounces[1][2] \in {"Left", "Right"}
         /\ Bounces[2][2] \in {"Top", "Bottom"}
    /\ ( /\ tick.pre.logoX = Zero /\ tick.pre.logoY = Zero
         /\ tick.pre.velocityX = Flt(-1) /\ tick.pre.velocityY = Flt(-1) ) =>
         /\ Len(Bounces) = 2
         /\ Bounces[1][2] = "Left" /\ Bounces[2][2] = "Top"
         /\ Len(tick.colorCalls) = 2
         /\ colorIndex = (tick.pre.colorIndex + 2) % Len(logoColors)
         /\ (tick.mid.velocityX = tick.pre.velocityX
             /\ tick.mid.velocityY = tick.pre.velocityY) =>
                (velocityX = One /\ velocityY = One)

\* The scenario's tick has run: from (0,0) with (-1,-1) to (+1,+1).
ScenarioTickDone ==
  /\ tick.ticked
  /\ tick.pre.logoX = Zero /\ tick.pre.logoY = Zero
  /\ tick.pre.velocityX = Flt(-1) /\ tick.pre.velocityY = Flt(-1)
  /\ velocityX = One /\ velocityY = One
  /\ Len(Bounces) = 2

\* ------------------------------------------------------------------- C7
\* C7: the palette has 8 colours, every changeColor call sets colorIndex to
\* (colorIndex + 1) mod 8, and 0 <= colorIndex < 8 in every reachable state.
ColorIndexCycles ==
  /\ Len(logoColors) = 8
  /\ colorIndex \in 0..7
  /\ \A i \in 1..Len(tick.colorCalls) :
       tick.colorCalls[i][2] = (tick.colorCalls[i][1] + 1) % 8
  /\ tick.ticked =>
       /\ Len(tick.colorCalls) > 0 => tick.colorCalls[1][1] = tick.pre.colorIndex
       /\ colorIndex = (tick.pre.colorIndex + Len(tick.colorCalls)) % 8

\* The advance after index 7 has happened.
ColorWrapped ==
  /\ colorIndex = 0
  /\ \E i \in 1..Len(tick.colorCalls) : tick.colorCalls[i] = <<7, 0>>

\* ------------------------------------------------------------------- C8
\* C8: in every tick each key's action runs if and only if the key is
\* sampled pressed and its latch of the tick before is not set (for ESC:
\* and isFullscreen is true when ESC is handled), at most once; after the
\* tick each latch equals the key state sampled in the tick.
KeysEdgeTriggered ==
  tick.ticked =>
    /\ Len(SelectSeq(tick.fsCalls, IsToggle)) = IF FEdge THEN 1 ELSE 0
    /\ Len(SelectSeq(tick.fsCalls, IsEscExit)) =
         IF EscEdge /\ FullscreenAtEsc THEN 1 ELSE 0
    /\ Len(SelectSeq(tick.speedCalls, IsDecrease)) = IF JEdge THEN 1 ELSE 0
    /\ Len(SelectSeq(tick.speedCalls, IsIncrease)) = IF LEdge THEN 1 ELSE 0
    /\ lastFKeyPressed = tick.keys.F
    /\ lastEscKeyPressed = tick.keys.Escape
    /\ lastJKeyPressed = tick.keys.J
    /\ lastLKeyPressed = tick.keys.L

\* A tick in which all four keys are still held from the tick before: no
\* action runs.
KeysHeldNoAction ==
  /\ tick.ticked
  /\ tick.keys = Keys(TRUE, TRUE, TRUE, TRUE)
  /\ tick.pre.lastFKeyPressed /\ tick.pre.lastEscKeyPressed
  /\ tick.pre.lastJKeyPressed /\ tick.pre.lastLKeyPressed
  /\ tick.fsCalls = <<>> /\ tick.speedCalls = <<>>

\* ------------------------------------------------------------------- C9
\* C9: a decreaseSpeed call at MinSpeed, and an increaseSpeed call at
\* MaxSpeed, leaves speed and both velocity components unchanged and no
\* line is logged for it.
NoChangeAtSpeedLimit ==
  \A i \in 1..Len(tick.speedCalls) :
    LET c == tick.speedCalls[i]
    IN /\ (c.fn = "decreaseSpeed" /\ c.oldSpeed = MinSpeed) =>
            /\ c.newSpeed = c.oldSpeed /\ c.vx1 = c.vx0 /\ c.vy1 = c.vy0
            /\ SelectSeq(tick.out, IsDecreaseLine) = <<>>
       /\ (c.fn = "increaseSpeed" /\ c.oldSpeed = MaxSpeed) =>
            /\ c.newSpeed = c.oldSpeed /\ c.vx1 = c.vx0 /\ c.vy1 = c.vy0
            /\ SelectSeq(tick.out, IsIncreaseLine) = <<>>

\* A decrease was attempted at MinSpeed in a tick with no other key.
DecreaseAtMinSpeed ==
  /\ tick.ticked
  /\ tick.keys = Keys(FALSE, FALSE, TRUE, FALSE)
  /\ speed = MinSpeed
  /\ tick.out = <<>>
  /\ Len(tick.speedCalls) = 1
  /\ tick.speedCalls[1].oldSpeed = MinSpeed

\* ------------------------------------------------------------------ C10
\* C10: an ESC press while isFullscreen is true sets isFullscreen to false
\* and requests windowed mode; an ESC press while isFullscreen is false makes
\* no setFullscreen call and logs nothing; after a tick with an ESC press
\* edge and F not pressed, isFullscreen is false.
EscExitsFullscreen ==
  tick.ticked =>
    /\ (EscEdge /\ FullscreenAtEsc) =>
         /\ ~isFullscreen /\ ~windowFullscreen
         /\ tick.fsCalls[Len(tick.fsCalls)] = <<"Fullscreen exited with ESC key", FALSE>>
    /\ (EscEdge /\ ~FullscreenAtEsc) =>
         /\ ~isFullscreen
         /\ SelectSeq(tick.fsCalls, IsEscExit) = <<>>
         /\ SelectSeq(tick.out, IsEscExit) = <<>>
         /\ ~FEdge =>
              /\ tick.fsCalls = <<>>
              /\ SelectSeq(tick.out, IsFullscreenLine) = <<>>
              /\ windowFullscreen = tick.pre.isFullscreen
    /\ (EscEdge /\ ~tick.keys.F) => ~isFullscreen

\* ESC alone was pressed in fullscreen, and the Game left it.
EscPressedInFullscreen ==
  /\ tick.ticked
  /\ EscEdge /\ ~tick.keys.F
  /\ tick.pre.isFullscreen
  /\ ~isFullscreen /\ ~windowFullscreen

\* ------------------------------------------------------------------ C11
Min(a, b) == IF a < b THEN a ELSE b

\* The last n entries of a sequence.
LastN(seq, n) == SubSeq(seq, Len(seq) - n + 1, Len(seq))

\* C11: the in-app buffer holds at most maxLogLines (10) lines, and they
\* are the most recent min(n, 10) of the n lines written so far, in order.
LogBufferKeepsLatest ==
  /\ maxLogLines = 10
  /\ Len(logBuffer) <= maxLogLines
  /\ logBuffer = LastN(logFile, Min(Len(logFile), maxLogLines))

\* A line was written to a full buffer in the last tick and the oldest
\* line was evicted.
OldestLineEvicted ==
  /\ tick.ticked /\ ticks > 0
  /\ Len(tick.out) > 0
  /\ Len(logFile) > maxLogLines + Len(tick.out)
  /\ Len(logBuffer) = maxLogLines
  /\ logBuffer[1] = logFile[Len(logFile) - maxLogLines + 1]
  /\ logBuffer[maxLogLines] = tick.out[Len(tick.out)]

\* ------------------------------------------------------------------ C12
\* Edge collisions that fired in the tick.
BouncesFired ==
  (IF tick.hitX # "none" THEN 1 ELSE 0) + (IF tick.hitY # "none" THEN 1 ELSE 0)

IsSpeedLine(line) == IsDecreaseLine(line) \/ IsIncreaseLine(line)

\* C12: in every tick the lines logged are one per bounce, one per
\* setFullscreen call and one per speed change, and nothing else; a tick
\* without any of them logs nothing.
OneLinePerEvent ==
  tick.ticked =>
    /\ Len(SelectSeq(tick.out, IsBounce)) = BouncesFired
    /\ Len(SelectSeq(tick.out, IsFullscreenLine)) = Len(tick.fsCalls)
    /\ Len(SelectSeq(tick.out, IsSpeedLine)) =
         Len(SelectSeq(tick.speedCalls, SpeedChanged))
    /\ Len(tick.out) = BouncesFired + Len(tick.fsCalls)
                       + Len(SelectSeq(tick.speedCalls, SpeedChanged))
    /\ (isFullscreen # tick.pre.isFullscreen) => Len(tick.fsCalls) > 0
    /\ ~F64Eq(speed, tick.pre.speed) =>
         Len(SelectSeq(tick.speedCalls, SpeedChanged)) > 0

\* A tick with a bounce, a fullscreen change, a speed change and a speed
\* key pressed at its limit: no line for the press that changed nothing.
LimitPressLogsNothing ==
  /\ tick.ticked /\ ticks > 0
  /\ BouncesFired > 0 /\ Len(tick.fsCalls) > 0
  /\ Len(tick.speedCalls) = 2
  /\ Len(SelectSeq(tick.speedCalls, SpeedChanged)) = 1
  /\ Len(tick.out) = BouncesFired + Len(tick.fsCalls) + 1

\* ------------------------------------------------------------------ C13
\* C13: both velocity components are non-zero in every reachable state.
LogoNeverStops == ~IsZero(velocityX) /\ ~IsZero(velocityY)

\* A decrease was attempted at MinSpeed on the axis-floored start velocity,
\* and the logo still moves on both axes.
SlowestLogoMoves ==
  /\ tick.ticked /\ ticks > 0
  /\ speed = MinSpeed
  /\ \E i \in 1..Len(tick.speedCalls) :
       tick.speedCalls[i].fn = "decreaseSpeed" /\ tick.speedCalls[i].oldSpeed = MinSpeed
  /\ F64Lt(F64Abs(velocityY), F64Abs(velocityX))
  /\ ~IsZero(velocityY)

\* ------------------------------------------------------------------ C14
\* The position in tick.out of the first bounce line.
Bounce1 == CHOOSE i \in 1..Len(tick.out) :
             IsBounce(tick.out[i]) /\ \A j \in 1..(i - 1) : ~IsBounce(tick.out[j])

\* C14 as claimed: collision before input sampling, so in a tick with a
\* bounce every bounce line precedes every speed or fullscreen line, and the
\* bounce line reports the reflection of the velocity the tick started with.
BounceLoggedBeforeInput ==
  (tick.ticked /\ BouncesFired > 0) =>
    /\ \A i, j \in 1..Len(tick.out) :
         (IsBounce(tick.out[i]) /\ ~IsBounce(tick.out[j])) => i < j
    /\ tick.hitX # "none" => tick.out[Bounce1][5] = F64Neg(tick.pre.velocityX)

\* C14 amended: the order is integration, input sampling, collision.  In a
\* tick with a bounce every speed or fullscreen line precedes every bounce
\* line, the position a bounce line reports is the integrated position, and
\* the velocity it reports is the reflection of the velocity after the
\* rescaling of the tick.
InputLoggedBeforeBounce ==
  (tick.ticked /\ BouncesFired > 0) =>
    /\ \A i, j \in 1..Len(tick.out) :
         (IsBounce(tick.out[i]) /\ ~IsBounce(tick.out[j])) => j < i
    /\ \A i \in 1..Len(tick.out) :
         IsBounce(tick.out[i]) =>
           /\ tick.out[i][3] = F64Add(tick.pre.logoX, tick.pre.velocityX)
           /\ tick.out[i][4] = F64Add(tick.pre.logoY, tick.pre.velocityY)
           /\ tick.out[i][2] \in {"Left", "Right"} =>
                /\ tick.out[i][5] = F64Neg(tick.mid.velocityX)
                /\ tick.out[i][6] = tick.mid.velocityY
           /\ tick.out[i][2] \in {"Top", "Bottom"} =>
                /\ tick.out[i][5] = velocityX
                /\ tick.out[i][6] = F64Neg(tick.mid.velocityY)

\* A tick with a fullscreen change, a speed change and a bounce on the x
\* axis, whose line comes last and reports the rescaled velocity.
BounceAfterSpeedChange ==
  /\ tick.ticked /\ ticks > 0
  /\ Len(tick.out) >= 3
  /\ IsFullscreenLine(tick.out[1])
  /\ IsSpeedLine(tick.out[Len(tick.out) - 1])
  /\ IsBounce(tick.out[Len(tick.out)])
  /\ tick.hitX # "none" /\ tick.hitY = "none"
  /\ tick.out[Len(tick.out)][5] # F64Neg(tick.pre.velocityX)

\* ------------------------------------------------------------------ C15
\* C15: the collision check negates exactly the velocity components of the
\* axes that collided and changes colorIndex and logoImage; it leaves the
\* other component, the position, speed, isFullscreen and the latches as
\* they were.  So a magnitude |velocityX| or |velocityY| differs after a
\* tick only if a speed key press changed speed in it.
BounceFrame ==
  tick.ticked =>
    /\ velocityX = IF tick.hitX # "none" THEN F64Neg(tick.mid.velocityX) ELSE tick.mid.velocityX
    /\ velocityY = IF tick.hitY # "none" THEN F64Neg(tick.mid.velocityY) ELSE tick.mid.velocityY
    /\ logoX = tick.mid.logoX /\ logoY = tick.mid.logoY
    /\ speed = tick.mid.speed
    /\ isFullscreen = tick.mid.isFullscreen
    /\ lastFKeyPressed = tick.mid.lastFKeyPressed
    /\ lastEscKeyPressed = tick.mid.lastEscKeyPressed
    /\ lastJKeyPressed = tick.mid.lastJKeyPressed
    /\ lastLKeyPressed = tick.mid.lastLKeyPressed
    /\ BouncesFired = 0 => colorIndex = tick.mid.colorIndex
    /\ (F64Abs(velocityX) # F64Abs(tick.pre.velocityX)
        \/ F64Abs(velocityY) # F64Abs(tick.pre.velocityY)) =>
         /\ JEdge \/ LEdge
         /\ SelectSeq(tick.speedCalls, SpeedChanged) # <<>>

\* A bounce on the left edge alone, in a tick without keys: the box stays
\* outside the edge and only velocityX, the colour and the image changed.
LeftBounceNoClamp ==
  /\ tick.ticked /\ ticks > 0
  /\ tick.keys = NoKeys
  /\ tick.hitX = "Left" /\ tick.hitY = "none"
  /\ F64Lt(logoX, Zero)
  /\ velocityX = F64Neg(tick.pre.velocityX) /\ velocityY = tick.pre.velocityY
  /\ colorIndex # tick.pre.colorIndex

\* ------------------------------------------------------------------ C16
IsXBounce(line) == IsBounce(line) /\ line[2] \in {"Left", "Right"}
IsYBounce(line) == IsBounce(line) /\ line[2] \in {"Top", "Bottom"}

\* C16: after a tick colorIndex is (colorIndex before + b) mod 8 for the
\* number b of edge collisions that fired, b is 0, 1 or 2 (at most one per
\* axis), the keys change no colorIndex, and after a tick with a bounce the
\* colour shown differs from the colour before the tick.
ColorChangesByBouncesOnly ==
  tick.ticked =>
    /\ tick.mid.colorIndex = tick.pre.colorIndex
    /\ Len(tick.colorCalls) = BouncesFired
    /\ Len(SelectSeq(tick.out, IsXBounce)) <= 1
    /\ Len(SelectSeq(tick.out, IsYBounce)) <= 1
    /\ Len(SelectSeq(tick.out, IsBounce)) = BouncesFired
    /\ BouncesFired \in 0..2
    /\ colorIndex = (tick.pre.colorIndex + BouncesFired) % 8
    /\ logoImage.fill = logoColors[colorIndex + 1]
    /\ BouncesFired > 0 => logoImage.fill # logoColors[tick.pre.colorIndex + 1]

\* A corner hit in a tick in which all four keys act: two colour advances.
TwoAdvancesWithKeys ==
  /\ tick.ticked /\ ticks > 0
  /\ FEdge /\ EscEdge /\ JEdge /\ LEdge
  /\ BouncesFired = 2
  /\ colorIndex = (tick.pre.colorIndex + 2) % 8

\* ------------------------------------------------------------------ C17
\* C17: in a tick with the press edges of both F and ESC, F is handled
\* first and ESC on the result: from windowed, F enters fullscreen and ESC
\* leaves it (two fullscreen lines); from fullscreen, F leaves it and ESC
\* does nothing (one line); isFullscreen is false after the tick.
FThenEsc ==
  (tick.ticked /\ FEdge /\ EscEdge) =>
    /\ ~isFullscreen /\ ~windowFullscreen
    /\ tick.fsCalls =
         IF tick.pre.isFullscreen
         THEN << <<"Fullscreen toggled", FALSE>> >>
         ELSE << <<"Fullscreen toggled", TRUE>>,
                 <<"Fullscreen exited with ESC key", FALSE>> >>
    /\ SelectSeq(tick.out, IsFullscreenLine) = tick.fsCalls

\* F and ESC pressed together in fullscreen: one line, windowed.
FAndEscInFullscreen ==
  /\ tick.ticked /\ ticks > 0
  /\ FEdge /\ EscEdge
  /\ tick.pre.isFullscreen
  /\ Len(SelectSeq(tick.out, IsFullscreenLine)) = 1
  /\ ~isFullscreen

====
